---- MODULE Spec2Model ----
(***************************************************************************)
(* Voxium backend: the per-user Discord Gateway session actor              *)
(* (backend/src/discord_gateway.rs, run_gateway), its command channel and  *)
(* one-shot reply channels, and the session registry with the HTTP         *)
(* handlers that use it (ensure_gateway_session, voice_join, voice_leave,  *)
(* voice_participants).                                                    *)
(*                                                                         *)
(* Spec    : one Gateway Session actor, the frames its peer may send, the  *)
(*           commands handlers enqueue, heartbeat ticks and actor exits.   *)
(* SpecFrames   : the same actor under the full payload domains.           *)
(* SpecScenario : the actor driven through the join scenario.              *)
(* SpecHttp : the actor and the voice_join handlers waiting on its replies.*)
(* SpecReg : the registry map, concurrent HTTP handlers and the life       *)
(*           cycle of the actors they create.                              *)
(* SpecQr  : one QR login session (backend/src/remote_auth.rs): its flow   *)
(*           task, the start and cancel handlers and the peer's frames.    *)
(* SpecSeq : the actor under frames with and without sequence numbers.     *)
(* SpecCmd : the registry under join and leave requests.                   *)
(* SpecBoth : the join scenario and a QR login side by side.               *)
(* SpecPresence : the presence cache and the participants reads.           *)
(* SpecPair : the sessions of two users side by side.                      *)
(* SpecHb  : the heartbeat tasks of the actor, with weak fairness.         *)
(***************************************************************************)
EXTENDS Integers, Sequences, FiniteSets, TLC

\* ---------------------------------------------------------------- bounds
MaxReq == 2        \* reply channels (join/leave requests) created in a run
MaxCmdQ == 2       \* commands waiting in the mpsc channel at one time
MaxSeq == 2        \* largest sequence number an inbound frame carries
MaxHb == 2         \* heartbeat sub-tasks spawned in a run
MaxActors == 3     \* actors the registry spawns in a run
MaxHandlers == 3   \* HTTP requests in a run

\* ---------------------------------------------------------------- values
Null == "null"                      \* Option::None of a string / JSON null
Empty == ""                         \* unwrap_or("") of a missing string
NoSeq == -1                         \* Option::None of the sequence number
Guilds == {"g1", "g2"}
Channels == {"c1", "c2"}
PlatformUsers == {"u1", "u2"}       \* "u1" is the session owner's id
SessionIds == {"s1"}
Tokens == {"T"}
Endpoints == {"ep"}
SeqVals == 1..MaxSeq
ReplyIds == 1..MaxReq

NoInfo == [token |-> Empty, endpoint |-> Null, guild_id |-> Null,
           session_id |-> Empty, user_id |-> Empty]
Ok(info) == [tag |-> "ok", err |-> Empty, info |-> info]
Err(e) == [tag |-> "err", err |-> e, info |-> NoInfo]
Dropped == [tag |-> "dropped", err |-> Empty, info |-> NoInfo]

\* String::unwrap_or_default / unwrap_or("") of an optional string
UnwrapOrDefault(x) == IF x = Null THEN Empty ELSE x

\* outbound frames: op 2 Identify, op 1 Heartbeat{d}, op 4 VoiceStateUpdate
Identify == [op |-> 2, guild_id |-> Null, channel_id |-> Null, d |-> NoSeq]
Heartbeat(s) == [op |-> 1, guild_id |-> Null, channel_id |-> Null, d |-> s]
VoiceState(g, c) == [op |-> 4, guild_id |-> g, channel_id |-> c, d |-> NoSeq]

JoinCommand(g, c, r) == [kind |-> "JoinVoice", guild_id |-> g, channel_id |-> c, reply |-> r]
LeaveCommand(g, r) == [kind |-> "LeaveVoice", guild_id |-> g, channel_id |-> Null, reply |-> r]
PendingJoin(g, c, r) == [guild_id |-> g, channel_id |-> c, reply |-> r]

\* ---------------------------------------------------------------- state
VARIABLES
    phase,              \* "connecting" | "running" | "drain" | "ended"
    sequence,           \* last sequence number seen, NoSeq if none
    session_id,         \* Option<String>
    discord_user_id,    \* Option<String>
    identified,         \* bool
    pending_voice_join, \* <<>> or <<PendingJoin>>
    queued_join,        \* <<>> or <<JoinCommand>>
    voice_token,        \* Option<String>
    voice_endpoint,     \* Option<String>
    voice_guild_id,     \* Option<String>
    presence,           \* by_guild: guild -> user -> participant
    hb_tasks,           \* heartbeat sub-tasks spawned and still running
    cmd_rx,             \* commands in the mpsc channel, oldest first
    ws_up,              \* the socket still accepts writes
    reply,              \* reply id -> results delivered on that one-shot channel
    next_reply,         \* next unused reply id
    out,                \* frames handed to ws_tx.send in the last actor step
    arrived,            \* which of the two voice events came since the last join was stored
    last_vsu,           \* guild -> user -> channel of the last VOICE_STATE_UPDATE
    identify_count,     \* Identify frames sent so far
    gateways,           \* registry: app user -> actor id (0: no entry)
    actor,              \* actor id -> life-cycle state
    handler,            \* HTTP request -> its position and what it holds
    response,           \* reply id -> HTTP status voice_join returned (0: none yet)
    qr_status,          \* QrSession.status of the QR session (Absent: not in the map)
    qr_pc,              \* position of run_remote_auth_flow
    qr_cancel_tx,       \* QrSession.cancel_tx is Some
    qr_cancel_rx,       \* cancel signals buffered in the mpsc channel
    qr_hb,              \* heartbeat sub-tasks of the flow still running
    qr_out,             \* frames the flow handed to write.send in its last step
    qr_logins,          \* token exchanges the flow has started
    listing,            \* body of the last voice_participants response
    sibling             \* the locals, socket and cache of another user's session

gwVars == <<phase, sequence, session_id, discord_user_id, identified,
            pending_voice_join, queued_join, voice_token, voice_endpoint,
            voice_guild_id, presence, hb_tasks, cmd_rx, ws_up,
            reply, next_reply, out, arrived, last_vsu, identify_count>>
regVars == <<gateways, actor, handler>>
httpVars == <<response>>
qrVars == <<qr_status, qr_pc, qr_cancel_tx, qr_cancel_rx, qr_hb, qr_out, qr_logins>>
sideVars == <<listing, sibling>>
restVars == <<regVars, httpVars, qrVars, sideVars>>
vars == <<gwVars, regVars, httpVars, qrVars, sideVars>>

\* the registry and the HTTP handlers
AppUsers == {"alice"}
ActorIds == 1..MaxActors
HandlerIds == 1..MaxHandlers
IdleHandler == [pc |-> "idle", user |-> Empty, kind |-> Empty, tx |-> 0, status |-> 0]

NoEntry == [user_id |-> Empty, channel_id |-> Null]
Participant(u, c) == [user_id |-> u, channel_id |-> c]


\* ---------------------------------------------------------------- helpers
Sent(frame, ok) == [frame |-> frame, ok |-> ok]

\* oneshot::Sender::send: the result is delivered on reply channel r
Deliver(rep, r, res) == [rep EXCEPT ![r] = Append(@, res)]

\* a oneshot::Sender goes out of scope without send: the receiver sees RecvError
DropAll(rep, S) == [r \in DOMAIN rep |-> IF r \in S THEN Append(rep[r], Dropped) ELSE rep[r]]

SlotReplies(slot) == {slot[i].reply : i \in DOMAIN slot}

\* (variant: the first sequence number seen is kept)
SetSequence_KeepsFirst(s) == IF sequence = NoSeq THEN s ELSE sequence

\* "Update sequence": only a frame that carries s changes it
SetSequence(s) == IF s # NoSeq THEN s ELSE sequence

\* the reply ids the actor or its channel still hold
Held == SlotReplies(pending_voice_join) \cup SlotReplies(queued_join) \cup SlotReplies(cmd_rx)

\* (variant: the pending join's channel is dropped without a result)
Cleanup_DropsPending(rep, pend) ==
    DropAll(rep, SlotReplies(pend) \cup SlotReplies(queued_join) \cup SlotReplies(cmd_rx))

\* end of run_gateway: fail the pending join, then every local is dropped
Cleanup(rep, pend) ==
    LET failed == IF pend # <<>>
                  THEN Deliver(rep, pend[1].reply, Err("Gateway connection closed"))
                  ELSE rep
    IN  DropAll(failed, SlotReplies(queued_join) \cup SlotReplies(cmd_rx))

\* running = false: the loop ends, Cleanup runs and the task returns
Exit(rep, pend) ==
    /\ phase' = "ended"
    /\ reply' = Cleanup(rep, pend)
    /\ pending_voice_join' = <<>>
    /\ queued_join' = <<>>
    /\ cmd_rx' = <<>>
    /\ ws_up' = FALSE
    /\ arrived' = {}

\* QrStatus: the variant and its payload (QrReady: fingerprint, Completed: auth
\* token, Error: message); Absent: the sessions map has no entry for the id
QrStatus(tag, data) == [tag |-> tag, data |-> data]
Absent == QrStatus("Absent", Empty)

ghostVars == <<last_vsu, identify_count>>
voiceVars == <<voice_token, voice_endpoint, voice_guild_id>>
readyVars == <<session_id, discord_user_id>>

\* ---------------------------------------------------------------- Init
\* what run_gateway and ensure_gateway_session create for a new session: the
\* locals before connect_async, an empty command channel and an empty cache
FreshSession ==
    [phase |-> "connecting", sequence |-> NoSeq, session_id |-> Null,
     discord_user_id |-> Null, identified |-> FALSE,
     pending_voice_join |-> <<>>, queued_join |-> <<>>,
     voice_token |-> Null, voice_endpoint |-> Null, voice_guild_id |-> Null,
     presence |-> [g \in Guilds |-> [u \in PlatformUsers |-> NoEntry]],
     hb_tasks |-> 0, cmd_rx |-> <<>>, ws_up |-> FALSE, out |-> <<>>,
     arrived |-> {},
     last_vsu |-> [g \in Guilds |-> [u \in PlatformUsers |-> Null]],
     identify_count |-> 0]

Init ==
    /\ phase = "connecting"
    /\ sequence = NoSeq
    /\ session_id = Null
    /\ discord_user_id = Null
    /\ identified = FALSE
    /\ pending_voice_join = <<>>
    /\ queued_join = <<>>
    /\ voice_token = Null
    /\ voice_endpoint = Null
    /\ voice_guild_id = Null
    /\ presence = [g \in Guilds |-> [u \in PlatformUsers |-> NoEntry]]
    /\ hb_tasks = 0
    /\ cmd_rx = <<>>
    /\ ws_up = FALSE
    /\ reply = [r \in ReplyIds |-> <<>>]
    /\ next_reply = 1
    /\ out = <<>>
    /\ arrived = {}
    /\ last_vsu = [g \in Guilds |-> [u \in PlatformUsers |-> Null]]
    /\ identify_count = 0
    /\ gateways = [u \in AppUsers |-> 0]
    /\ actor = [a \in ActorIds |-> [state |-> "unborn", user |-> Empty]]
    /\ handler = [h \in HandlerIds |-> IdleHandler]
    /\ response = [r \in ReplyIds |-> 0]
    /\ qr_status = Absent
    /\ qr_pc = "idle"
    /\ qr_cancel_tx = FALSE
    /\ qr_cancel_rx = 0
    /\ qr_hb = 0
    /\ qr_out = <<>>
    /\ qr_logins = 0
    /\ listing = <<>>
    /\ sibling = FreshSession

\* ---------------------------------------------------------------- connection
\* connect_async succeeded: the select loop starts
ConnectOk ==
    /\ phase = "connecting"
    /\ phase' = "running"
    /\ ws_up' = TRUE
    /\ out' = <<>>
    /\ UNCHANGED <<sequence, readyVars, identified, pending_voice_join, queued_join,
                   voiceVars, presence, hb_tasks, cmd_rx, reply, next_reply,
                   arrived, ghostVars, restVars>>

\* connect_async failed: the actor enters the drain loop
ConnectFail ==
    /\ phase = "connecting"
    /\ phase' = "drain"
    /\ out' = <<>>
    /\ UNCHANGED <<sequence, readyVars, identified, pending_voice_join, queued_join,
                   voiceVars, presence, hb_tasks, cmd_rx, ws_up, reply, next_reply,
                   arrived, ghostVars, restVars>>

\* (variant: the newest command of the channel is received)
NextCommand_Newest(q) == q[Len(q)]

\* cmd_rx.recv(): the oldest command of the channel
NextCommand(q) == Head(q)

\* drain loop: every command received is answered "Gateway connection failed"
DrainCmd ==
    /\ phase = "drain"
    /\ cmd_rx # <<>>
    /\ reply' = Deliver(reply, NextCommand(cmd_rx).reply, Err("Gateway connection failed"))
    /\ cmd_rx' = Tail(cmd_rx)
    /\ out' = <<>>
    /\ UNCHANGED <<phase, sequence, readyVars, identified, pending_voice_join, queued_join,
                   voiceVars, presence, hb_tasks, ws_up, next_reply,
                   arrived, ghostVars, restVars>>

\* drain loop: every Sender has been dropped and the channel is empty, recv() yields None
DrainEnd ==
    /\ phase = "drain"
    /\ cmd_rx = <<>>
    /\ phase' = "ended"
    /\ out' = <<>>
    /\ UNCHANGED <<sequence, readyVars, identified, pending_voice_join, queued_join,
                   voiceVars, presence, hb_tasks, cmd_rx, ws_up, reply, next_reply,
                   arrived, ghostVars, restVars>>


\* ---------------------------------------------------------------- inbound frames
\* a text frame the actor interprets as nothing: not JSON (dropped before the
\* sequence update), or JSON with op 11, an unknown op or an ignored dispatch
Ignored(json, s) ==
    /\ phase = "running"
    /\ sequence' = IF json THEN SetSequence(s) ELSE sequence
    /\ out' = <<>>
    /\ UNCHANGED <<phase, readyVars, identified, pending_voice_join, queued_join,
                   voiceVars, presence, hb_tasks, cmd_rx, ws_up, reply, next_reply,
                   arrived, ghostVars, restVars>>

\* (variant: the text is taken for a frame with sequence number 1)
Malformed_TakenForFrame == Ignored(TRUE, 1)

\* serde_json::from_str fails: continue
Malformed == Ignored(FALSE, NoSeq)

\* op 11 Heartbeat ACK
HeartbeatAck(s) == Ignored(TRUE, s)

\* any other op, and op 0 with an event name that is not interpreted
OtherFrame(s) == Ignored(TRUE, s)

\* Some(Err(e)), a read error on the socket, falls into the final `_ => {}` arm:
\* nothing is done and the loop goes on
WsReadError ==
    /\ phase = "running"
    /\ out' = <<>>
    /\ UNCHANGED <<phase, sequence, readyVars, identified, pending_voice_join, queued_join,
                   voiceVars, presence, hb_tasks, cmd_rx, ws_up, reply, next_reply,
                   arrived, ghostVars, restVars>>

\* Ping, Pong and Binary fall into the final `_ => {}` arm
WsOther ==
    /\ phase = "running"
    /\ out' = <<>>
    /\ UNCHANGED <<phase, sequence, readyVars, identified, pending_voice_join, queued_join,
                   voiceVars, presence, hb_tasks, cmd_rx, ws_up, reply, next_reply,
                   arrived, ghostVars, restVars>>

\* (variant: every Hello is answered with Identify)
SendsIdentify_Always == TRUE

\* `if !identified` of the Hello handler
SendsIdentify == ~identified

\* op 10 Hello: spawn a heartbeat sub-task, send Identify unless already identified
Hello(s) ==
    /\ phase = "running"
    /\ hb_tasks < MaxHb
    /\ sequence' = SetSequence(s)
    /\ hb_tasks' = hb_tasks + 1
    /\ IF SendsIdentify
       THEN /\ out' = <<Sent(Identify, ws_up)>>
            /\ identified' = TRUE
            /\ identify_count' = identify_count + 1
       ELSE /\ out' = <<>>
            /\ UNCHANGED <<identified, identify_count>>
    /\ UNCHANGED <<phase, readyVars, pending_voice_join, queued_join,
                   voiceVars, presence, cmd_rx, ws_up, reply, next_reply,
                   arrived, last_vsu, restVars>>

\* (variant: the voice data of an earlier join is kept)
ClearedAtJoin_Kept(v) == v

\* "Clear previous voice state" when a join is stored: the Option becomes None
ClearedAtJoin(v) == Null

\* (variant: a queued join is not replayed)
ReplaysQueuedJoin_Never == FALSE

\* `if let Some(JoinVoice{..}) = queued_join.take()` of READY | READY_SUPPLEMENTAL
ReplaysQueuedJoin == queued_join # <<>>

\* (variant: READY captures nothing)
CapturesSession_Never(name, d) == FALSE

\* `if event_name == "READY" { if let Some(d) = payload.get("d") {..} }`
CapturesSession(name, d) == name = "READY" /\ d

\* op 0 READY | READY_SUPPLEMENTAL: READY with a data object captures the
\* session id and the user id; both replay a queued join
Ready(s, name, d, sid, uid) ==
    /\ phase = "running"
    /\ sequence' = SetSequence(s)
    /\ IF CapturesSession(name, d)
       THEN /\ session_id' = sid
            /\ discord_user_id' = uid
       ELSE UNCHANGED readyVars
    /\ IF ReplaysQueuedJoin
       THEN LET q == queued_join[1] IN
            /\ voice_token' = ClearedAtJoin(voice_token)
            /\ voice_endpoint' = ClearedAtJoin(voice_endpoint)
            /\ voice_guild_id' = ClearedAtJoin(voice_guild_id)
            /\ pending_voice_join' = <<PendingJoin(q.guild_id, q.channel_id, q.reply)>>
            /\ queued_join' = <<>>
            /\ reply' = DropAll(reply, SlotReplies(pending_voice_join))
            /\ out' = <<Sent(VoiceState(q.guild_id, q.channel_id), ws_up)>>
            /\ arrived' = {}
       ELSE /\ out' = <<>>
            /\ UNCHANGED <<voiceVars, pending_voice_join, queued_join, reply, arrived>>
    /\ UNCHANGED <<phase, identified, presence, hb_tasks, cmd_rx, ws_up,
                   next_reply, ghostVars, restVars>>

\* (variant: a null channel leaves the entry in place)
PresenceUpdate_NeverRemoves(p, g, c, u) ==
    IF g # Empty /\ u # Empty /\ c # Null
    THEN [p EXCEPT ![g][u] = Participant(u, c)]
    ELSE p

\* the presence cache after a VOICE_STATE_UPDATE for (g, u) with channel c
PresenceUpdate(p, g, c, u) ==
    IF g # Empty /\ u # Empty
    THEN [p EXCEPT ![g][u] = IF c = Null THEN NoEntry ELSE Participant(u, c)]
    ELSE p

\* op 0 VOICE_STATE_UPDATE
VoiceStateUpdate(s, d, g, c, u) ==
    LET our_id == UnwrapOrDefault(discord_user_id)
        resolve == /\ d /\ u = our_id
                   /\ voice_token # Null /\ voice_endpoint # Null
                   /\ pending_voice_join # <<>>
    IN
    /\ phase = "running"
    /\ sequence' = SetSequence(s)
    /\ presence' = IF d THEN PresenceUpdate(presence, g, c, u) ELSE presence
    /\ last_vsu' = IF d /\ g \in Guilds /\ u \in PlatformUsers
                   THEN [last_vsu EXCEPT ![g][u] = c] ELSE last_vsu
    /\ IF resolve
       THEN /\ reply' = Deliver(reply, pending_voice_join[1].reply,
                           Ok([token |-> UnwrapOrDefault(voice_token),
                               endpoint |-> voice_endpoint,
                               guild_id |-> voice_guild_id,
                               session_id |-> UnwrapOrDefault(session_id),
                               user_id |-> our_id]))
            /\ pending_voice_join' = <<>>
            /\ voice_token' = Null
            /\ voice_endpoint' = Null
            /\ voice_guild_id' = Null
       ELSE UNCHANGED <<reply, pending_voice_join, voiceVars>>
    /\ arrived' = IF d /\ u = our_id /\ pending_voice_join # <<>>
                  THEN arrived \cup {"state"} ELSE arrived
    /\ out' = <<>>
    /\ UNCHANGED <<phase, readyVars, identified, queued_join, hb_tasks, cmd_rx,
                   ws_up, next_reply, identify_count, restVars>>

\* (variant: the server update answers only once the owner's state event came)
AnswersAtServerUpdate_AfterStateEvent == pending_voice_join # <<>> /\ "state" \in arrived

\* `if let Some((_, _, reply)) = pending_voice_join.take()` of VOICE_SERVER_UPDATE
AnswersAtServerUpdate == pending_voice_join # <<>>

\* op 0 VOICE_SERVER_UPDATE: capture token/endpoint/guild, answer a pending join
VoiceServerUpdate(s, d, t, e, g) ==
    /\ phase = "running"
    /\ sequence' = SetSequence(s)
    /\ IF d /\ AnswersAtServerUpdate
       THEN /\ reply' = Deliver(reply, pending_voice_join[1].reply,
                           Ok([token |-> UnwrapOrDefault(t),
                               endpoint |-> e,
                               guild_id |-> g,
                               session_id |-> UnwrapOrDefault(session_id),
                               user_id |-> UnwrapOrDefault(discord_user_id)]))
            /\ pending_voice_join' = <<>>
            /\ voice_token' = Null
            /\ voice_endpoint' = Null
            /\ voice_guild_id' = Null
            /\ arrived' = arrived \cup {"server"}
       ELSE /\ voice_token' = IF d THEN t ELSE voice_token
            /\ voice_endpoint' = IF d THEN e ELSE voice_endpoint
            /\ voice_guild_id' = IF d THEN g ELSE voice_guild_id
            /\ UNCHANGED <<reply, pending_voice_join, arrived>>
    /\ out' = <<>>
    /\ UNCHANGED <<phase, readyVars, identified, queued_join, presence, hb_tasks, cmd_rx,
                   ws_up, next_reply, ghostVars, restVars>>

\* op 7 Reconnect: running = false
Reconnect(s) ==
    /\ phase = "running"
    /\ sequence' = SetSequence(s)
    /\ Exit(reply, pending_voice_join)
    /\ out' = <<>>
    /\ UNCHANGED <<readyVars, identified, voiceVars, presence, hb_tasks,
                   next_reply, ghostVars, restVars>>

\* (variant: the pending join is answered but left in its slot)
InvalidSession_KeepsPending(s) ==
    /\ phase = "running"
    /\ sequence' = SetSequence(s)
    /\ Exit(IF pending_voice_join # <<>>
            THEN Deliver(reply, pending_voice_join[1].reply, Err("Discord session invalid"))
            ELSE reply, pending_voice_join)
    /\ out' = <<>>
    /\ UNCHANGED <<readyVars, identified, voiceVars, presence, hb_tasks,
                   next_reply, ghostVars, restVars>>

\* op 9 Invalid Session: running = false, the pending join fails at once
InvalidSession(s) ==
    /\ phase = "running"
    /\ sequence' = SetSequence(s)
    /\ Exit(IF pending_voice_join # <<>>
            THEN Deliver(reply, pending_voice_join[1].reply, Err("Discord session invalid"))
            ELSE reply, <<>>)
    /\ out' = <<>>
    /\ UNCHANGED <<readyVars, identified, voiceVars, presence, hb_tasks,
                   next_reply, ghostVars, restVars>>

\* Some(Ok(Message::Close)) and None (stream ended): running = false
WsClosed ==
    /\ phase = "running"
    /\ Exit(reply, pending_voice_join)
    /\ out' = <<>>
    /\ UNCHANGED <<sequence, readyVars, identified, voiceVars, presence, hb_tasks,
                   next_reply, ghostVars, restVars>>


\* ---------------------------------------------------------------- heartbeat
\* hb_rx.recv(): send op 1 with the last sequence; a failed send ends the actor
HeartbeatTick ==
    /\ phase = "running"
    /\ hb_tasks > 0
    /\ out' = <<Sent(Heartbeat(sequence), ws_up)>>
    /\ IF ws_up
       THEN UNCHANGED <<phase, reply, pending_voice_join, queued_join, cmd_rx, ws_up, arrived>>
       ELSE Exit(reply, pending_voice_join)
    /\ UNCHANGED <<sequence, readyVars, identified, voiceVars, presence, hb_tasks,
                   next_reply, ghostVars, restVars>>

\* ---------------------------------------------------------------- commands
\* the failure an older pending join gets when a newer join is handled
Superseded == Err("Superseded by new join request")

\* Some(JoinVoice): queue before Ready; otherwise supersede, leave, sleep, join.
\* brk: the socket breaks during the 200 ms sleep
JoinVoice(brk) ==
    /\ phase = "running"
    /\ cmd_rx # <<>>
    /\ NextCommand(cmd_rx).kind = "JoinVoice"
    /\ LET cmd == NextCommand(cmd_rx)
           up2 == ws_up /\ ~brk
           superseded == IF pending_voice_join # <<>>
                         THEN Deliver(reply, pending_voice_join[1].reply, Superseded)
                         ELSE reply
       IN
       IF session_id = Null
       THEN /\ queued_join' = <<cmd>>
            /\ reply' = DropAll(reply, SlotReplies(queued_join))
            /\ out' = <<>>
            /\ UNCHANGED <<pending_voice_join, voiceVars, ws_up, arrived>>
       ELSE /\ out' = <<Sent(VoiceState(cmd.guild_id, Null), ws_up),
                        Sent(VoiceState(cmd.guild_id, cmd.channel_id), up2)>>
            /\ voice_token' = ClearedAtJoin(voice_token)
            /\ voice_endpoint' = ClearedAtJoin(voice_endpoint)
            /\ voice_guild_id' = ClearedAtJoin(voice_guild_id)
            /\ ws_up' = up2
            /\ arrived' = {}
            /\ IF up2
               THEN /\ pending_voice_join' = <<PendingJoin(cmd.guild_id, cmd.channel_id, cmd.reply)>>
                    /\ reply' = superseded
               ELSE /\ pending_voice_join' = <<>>
                    /\ reply' = Deliver(superseded, cmd.reply,
                                        Err("Failed to send voice state update"))
            /\ UNCHANGED queued_join
    /\ cmd_rx' = Tail(cmd_rx)
    /\ UNCHANGED <<phase, sequence, readyVars, identified, presence, hb_tasks,
                   next_reply, ghostVars, restVars>>

\* (variant: the leave is answered Ok whatever the write returned)
LeaveResult_AlwaysOk(ok) == Ok(NoInfo)

\* the answer to a leave: Ok(()) if ws_tx.send succeeded, Err otherwise
LeaveResult(ok) == IF ok THEN Ok(NoInfo) ELSE Err("Failed to send voice leave")

\* Some(LeaveVoice): send channel_id null and answer at once
LeaveVoice ==
    /\ phase = "running"
    /\ cmd_rx # <<>>
    /\ NextCommand(cmd_rx).kind = "LeaveVoice"
    /\ LET cmd == NextCommand(cmd_rx) IN
       /\ out' = <<Sent(VoiceState(cmd.guild_id, Null), ws_up)>>
       /\ reply' = Deliver(reply, cmd.reply, LeaveResult(ws_up))
    /\ cmd_rx' = Tail(cmd_rx)
    /\ UNCHANGED <<phase, sequence, readyVars, identified, pending_voice_join, queued_join,
                   voiceVars, presence, hb_tasks, ws_up, next_reply,
                   arrived, ghostVars, restVars>>

\* every Sender has been dropped and the channel is empty: cmd_rx.recv() yields
\* None, running = false
CmdClosed ==
    /\ phase = "running"
    /\ cmd_rx = <<>>
    /\ Exit(reply, pending_voice_join)
    /\ out' = <<>>
    /\ UNCHANGED <<sequence, readyVars, identified, voiceVars, presence, hb_tasks,
                   next_reply, ghostVars, restVars>>

\* ---------------------------------------------------------------- environment
\* a handler creates a one-shot channel and sends a command on cmd_tx
SendCommand(cmd) ==
    /\ phase # "ended"
    /\ next_reply <= MaxReq
    /\ Len(cmd_rx) < MaxCmdQ
    /\ cmd.reply = next_reply
    /\ cmd_rx' = Append(cmd_rx, cmd)
    /\ next_reply' = next_reply + 1
    /\ UNCHANGED <<phase, sequence, readyVars, identified, pending_voice_join, queued_join,
                   voiceVars, presence, hb_tasks, ws_up, reply, out,
                   arrived, ghostVars, restVars>>

\* voice_join sends JoinVoice{guild_id, channel_id, reply}
SendJoin(g, c) == SendCommand(JoinCommand(g, c, next_reply))

\* voice_leave sends LeaveVoice{guild_id, reply}
SendLeave(g) == SendCommand(LeaveCommand(g, next_reply))

\* the transport fails under the actor: later writes return an error
SocketBreak ==
    /\ phase = "running"
    /\ ws_up
    /\ ws_up' = FALSE
    /\ UNCHANGED <<phase, sequence, readyVars, identified, pending_voice_join, queued_join,
                   voiceVars, presence, hb_tasks, cmd_rx, reply, next_reply, out,
                   arrived, ghostVars, restVars>>

\* ---------------------------------------------------------------- specification
OptSeq == SeqVals \cup {NoSeq}
\* READY payloads: <<session_id, user.id>>; the second lacks the session id
ReadyPayloads == {<<"s1", "u1">>, <<Null, "u1">>}
\* VOICE_SERVER_UPDATE payloads: <<token, endpoint, guild_id>>
ServerPayloads == {<<"T", "ep", "g1">>, <<"T", "ep", "g2">>}
\* VOICE_STATE_UPDATE payloads: <<guild_id, channel_id, user_id>>
StatePayloads == {<<"g1", "c1", "u1">>, <<"g1", Null, "u2">>}
JoinTargets == {<<"g1", "c1">>}
LeaveTargets == {"g1"}

Next ==
    \/ ConnectOk
    \/ ConnectFail
    \/ DrainCmd
    \/ DrainEnd
    \/ Malformed
    \/ WsOther
    \/ WsReadError
    \/ \E s \in {NoSeq} : HeartbeatAck(s)
    \/ \E s \in {NoSeq} : OtherFrame(s)
    \/ \E s \in {NoSeq} : Hello(s)
    \/ \E s \in {NoSeq}, name \in {"READY", "READY_SUPPLEMENTAL"}, d \in BOOLEAN,
          p \in ReadyPayloads : Ready(s, name, d, p[1], p[2])
    \/ \E s \in {NoSeq}, d \in BOOLEAN, p \in StatePayloads :
          VoiceStateUpdate(s, d, p[1], p[2], p[3])
    \/ \E s \in {NoSeq}, d \in BOOLEAN, p \in ServerPayloads :
          VoiceServerUpdate(s, d, p[1], p[2], p[3])
    \/ \E s \in {NoSeq} : Reconnect(s)
    \/ \E s \in {NoSeq} : InvalidSession(s)
    \/ WsClosed
    \/ HeartbeatTick
    \/ \E brk \in BOOLEAN : JoinVoice(brk)
    \/ LeaveVoice
    \/ CmdClosed
    \/ \E t \in JoinTargets : SendJoin(t[1], t[2])
    \/ \E g \in LeaveTargets : SendLeave(g)
    \/ SocketBreak

Spec == Init /\ [][Next]_vars

\* The same actor under every frame its peer may send, with the full payload
\* domains (any guild, channel and user, with and without a sequence number),
\* and no commands.
EventGuild == Guilds \cup {Empty}
EventUser == PlatformUsers \cup {Empty}
OptChannel == Channels \cup {Null}

NextFrames ==
    \/ ConnectOk
    \/ Malformed
    \/ WsOther
    \/ WsReadError
    \/ \E s \in OptSeq : HeartbeatAck(s)
    \/ \E s \in OptSeq : OtherFrame(s)
    \/ \E s \in OptSeq : Hello(s)
    \/ \E s \in OptSeq, name \in {"READY", "READY_SUPPLEMENTAL"}, d \in BOOLEAN,
          p \in ReadyPayloads : Ready(s, name, d, p[1], p[2])
    \/ \E s \in OptSeq, d \in BOOLEAN, g \in EventGuild, c \in OptChannel, u \in EventUser :
          VoiceStateUpdate(s, d, g, c, u)
    \/ \E s \in OptSeq, d \in BOOLEAN, p \in ServerPayloads :
          VoiceServerUpdate(s, d, p[1], p[2], p[3])
    \/ \E s \in OptSeq : Reconnect(s)
    \/ \E s \in OptSeq : InvalidSession(s)
    \/ WsClosed
    \/ HeartbeatTick
    \/ CmdClosed
    \/ SocketBreak

SpecFrames == Init /\ [][NextFrames]_vars

\* The scenario "join(g1,c1) queued; Hello; READY{s1,u1}; VOICE_STATE_UPDATE
\* {g1,c1,u1}; VOICE_SERVER_UPDATE{g1,T,ep}": its events in that order, each with
\* or without a sequence number, among traffic the scenario does not mention
\* (heartbeat ticks and ACKs, repeated Hello, frames that are not JSON, voice
\* states of another user).
NextScenario ==
    \/ ConnectOk
    \/ next_reply = 1 /\ SendJoin("g1", "c1")
    \/ session_id = Null /\ JoinVoice(FALSE)
    \/ \E s \in OptSeq : Hello(s)
    \/ /\ identified /\ queued_join # <<>>
       /\ \E s \in OptSeq : Ready(s, "READY", TRUE, "s1", "u1")
    \/ /\ pending_voice_join # <<>> /\ last_vsu["g1"]["u1"] = Null
       /\ \E s \in OptSeq : VoiceStateUpdate(s, TRUE, "g1", "c1", "u1")
    \/ /\ pending_voice_join # <<>> /\ last_vsu["g1"]["u1"] = "c1"
       /\ \E s \in OptSeq : VoiceServerUpdate(s, TRUE, "T", "ep", "g1")
    \/ Malformed
    \/ \E s \in OptSeq : HeartbeatAck(s)
    \/ HeartbeatTick
    \/ \E s \in OptSeq, g \in Guilds, c \in OptChannel : VoiceStateUpdate(s, TRUE, g, c, "u2")

SpecScenario == Init /\ [][NextScenario]_vars

\* ---------------------------------------------------------------- voice_join
\* (variant: a failure reported by the actor is answered like a lost channel)
JoinResponse_FailureIs500(res) ==
    IF res.tag = "ok" THEN 200 ELSE 500

\* the match on what reply_rx yielded: Ok(Ok(Ok(info))) 200, Ok(Ok(Err(e))) 502,
\* Ok(Err(_)) (the Sender was dropped) 500
JoinResponse(res) ==
    IF res.tag = "ok" THEN 200
    ELSE IF res.tag = "err" THEN 502
    ELSE 500

\* cmd_tx.send(JoinVoice{..}) fails because run_gateway has returned: the command
\* and its reply Sender are dropped, the handler answers 500
VoiceJoinSendFailed ==
    /\ phase = "ended"
    /\ next_reply <= MaxReq
    /\ response' = [response EXCEPT ![next_reply] = 500]
    /\ next_reply' = next_reply + 1
    /\ UNCHANGED <<phase, sequence, readyVars, identified, pending_voice_join, queued_join,
                   voiceVars, presence, hb_tasks, cmd_rx, ws_up, reply, out,
                   arrived, ghostVars, regVars, qrVars, sideVars>>

\* timeout(20 s, reply_rx) yields what was delivered on the channel, or its drop
VoiceJoinReply(r) ==
    /\ response[r] = 0
    /\ reply[r] # <<>>
    /\ response' = [response EXCEPT ![r] = JoinResponse(reply[r][1])]
    /\ UNCHANGED <<gwVars, regVars, qrVars, sideVars>>

\* (variant: the expired wait takes the join back out of the actor)
VoiceJoinTimeout_Cancels(r) ==
    /\ response[r] = 0
    /\ r < next_reply
    /\ reply[r] = <<>>
    /\ response' = [response EXCEPT ![r] = 504]
    /\ queued_join' = SelectSeq(queued_join, LAMBDA q : q.reply # r)
    /\ pending_voice_join' = SelectSeq(pending_voice_join, LAMBDA q : q.reply # r)
    /\ UNCHANGED <<phase, sequence, readyVars, identified, voiceVars, presence, hb_tasks,
                   cmd_rx, ws_up, reply, next_reply, out, arrived, ghostVars,
                   regVars, qrVars, sideVars>>

\* timeout(20 s, reply_rx) expires with nothing on the channel: 504; reply_rx is
\* dropped, which the actor does not observe
VoiceJoinTimeout(r) ==
    /\ response[r] = 0
    /\ r < next_reply
    /\ reply[r] = <<>>
    /\ response' = [response EXCEPT ![r] = 504]
    /\ UNCHANGED <<gwVars, regVars, qrVars, sideVars>>

\* One actor and the voice_join handlers that talk to it: every request is a join;
\* the heartbeat, which no join depends on, is left out.
NextHttp ==
    \/ ConnectOk
    \/ ConnectFail
    \/ DrainCmd
    \/ DrainEnd
    \/ \E s \in {NoSeq}, name \in {"READY", "READY_SUPPLEMENTAL"}, d \in BOOLEAN,
          p \in ReadyPayloads : Ready(s, name, d, p[1], p[2])
    \/ \E s \in {NoSeq}, d \in BOOLEAN, p \in StatePayloads :
          VoiceStateUpdate(s, d, p[1], p[2], p[3])
    \/ \E s \in {NoSeq}, d \in BOOLEAN, p \in ServerPayloads :
          VoiceServerUpdate(s, d, p[1], p[2], p[3])
    \/ \E s \in {NoSeq} : Reconnect(s)
    \/ \E s \in {NoSeq} : InvalidSession(s)
    \/ WsClosed
    \/ \E brk \in BOOLEAN : JoinVoice(brk)
    \/ CmdClosed
    \/ \E t \in JoinTargets : SendJoin(t[1], t[2])
    \/ SocketBreak
    \/ VoiceJoinSendFailed
    \/ \E r \in ReplyIds : VoiceJoinReply(r)
    \/ \E r \in ReplyIds : VoiceJoinTimeout(r)

SpecHttp == Init /\ [][NextHttp]_vars


\* ---------------------------------------------------------------- remote auth
\* backend/src/remote_auth.rs: one QR session of the sessions map, its flow task
\* (run_remote_auth_flow), the handlers that touch it, and the frames of its peer
PreTerminal == {"Connecting", "WaitingForQr", "QrReady", "Scanned", "Completing"}
Terminal == {"Completed", "Error", "Cancelled"}
Cancelled == QrStatus("Cancelled", Empty)
QrError(message) == QrStatus("Error", message)

\* byte strings, by how they were made: a plaintext, an RSA-OAEP ciphertext under
\* a public key, a SHA-256 digest; Failure is the Err(_) of a conversion
Bytes(kind, key, msg) == [kind |-> kind, key |-> key, msg |-> msg]
Plain(m) == Bytes("plain", Empty, m)
Failure == Bytes("error", Empty, Empty)
Encrypt(k, b) == Bytes("cipher", k, b.msg)
\* private_key.decrypt(Oaep::new::<Sha256>(), ..): only a ciphertext made with
\* the matching public key decrypts
Decrypt(k, b) == IF b.kind = "cipher" /\ b.key = k THEN Plain(b.msg) ELSE Failure
\* Sha256::digest: the digest of a plaintext differs from the one of its ciphertext
Sha256(b) == Bytes("sha256", b.key, b.msg)

\* text on the wire, by its alphabet: base64 STANDARD, base64 URL_SAFE_NO_PAD, or
\* text that is no base64 at all
Text(alphabet, b) == [alphabet |-> alphabet, bytes |-> b]
StandardEncode(b) == Text("STANDARD", b)
UrlSafeNoPadEncode(b) == Text("URL_SAFE_NO_PAD", b)
StandardDecode(t) == IF t.alphabet = "STANDARD" THEN t.bytes ELSE Failure

SessionKey == "k1"                  \* the key pair the flow generated
QrKeys == {"k1", "k2"}
Nonces == {"n1", "n2"}
Fingerprints == {"fp1", Empty}
Tickets == {"tk1", Empty}

\* outbound frames of the flow: init, nonce_proof{proof}, heartbeat
QrFrame(op, proof) == [op |-> op, proof |-> proof]
QrInit == QrFrame("init", Text("none", Failure))
QrProof(proof) == QrFrame("nonce_proof", proof)
QrHeartbeat == QrFrame("heartbeat", Text("none", Failure))

nonQrVars == <<gwVars, regVars, httpVars, sideVars>>

\* set_status: overwrite the status if the session is in the map
SetStatus(st) == IF qr_status = Absent THEN qr_status ELSE st

\* start_qr_session: insert the session as Connecting and spawn its flow
StartQrSession ==
    /\ qr_pc = "idle"
    /\ qr_status' = QrStatus("Connecting", Empty)
    /\ qr_cancel_tx' = TRUE
    /\ qr_pc' = "connecting"
    /\ UNCHANGED <<qr_cancel_rx, qr_hb, qr_out, qr_logins, nonQrVars>>

\* start_qr_session of another session: retain() removes this one if it is finished
StartOtherQrSession ==
    /\ qr_status.tag \in Terminal
    /\ qr_status' = Absent
    /\ qr_cancel_tx' = FALSE
    /\ UNCHANGED <<qr_pc, qr_cancel_rx, qr_hb, qr_out, qr_logins, nonQrVars>>

\* cancel_qr_session: take cancel_tx and try_send on it, set Cancelled, answer ok
CancelQrSession ==
    /\ qr_status # Absent
    /\ qr_cancel_rx' = IF qr_cancel_tx /\ qr_pc # "ended" THEN 1 ELSE qr_cancel_rx
    /\ qr_cancel_tx' = FALSE
    /\ qr_status' = Cancelled
    /\ UNCHANGED <<qr_pc, qr_hb, qr_out, qr_logins, nonQrVars>>

\* (variant: the flow ends and its heartbeat task is left running)
QrBreak_LeavesHeartbeat ==
    /\ qr_pc' = "ended"
    /\ UNCHANGED qr_hb

\* the flow leaves its loop (or returns): the heartbeat handle is aborted
QrBreak ==
    /\ qr_pc' = "ended"
    /\ qr_hb' = 0

\* key generation, key export, request build or connect_async fails
QrConnectFailed(message) ==
    /\ qr_pc = "connecting"
    /\ qr_status' = SetStatus(QrError(message))
    /\ QrBreak
    /\ qr_out' = <<>>
    /\ UNCHANGED <<qr_cancel_tx, qr_cancel_rx, qr_logins, nonQrVars>>

\* connect_async succeeds: set_status(WaitingForQr), enter the loop
QrConnectOk ==
    /\ qr_pc = "connecting"
    /\ qr_status' = SetStatus(QrStatus("WaitingForQr", Empty))
    /\ qr_pc' = "loop"
    /\ qr_out' = <<>>
    /\ UNCHANGED <<qr_cancel_tx, qr_cancel_rx, qr_hb, qr_logins, nonQrVars>>

\* select arm `_ = cancel_rx.recv()`: a buffered signal, or None once the Sender
\* is gone
QrCancelSignal ==
    /\ qr_pc = "loop"
    /\ qr_cancel_rx > 0 \/ ~qr_cancel_tx
    /\ qr_cancel_rx' = 0
    /\ qr_status' = SetStatus(Cancelled)
    /\ QrBreak
    /\ qr_out' = <<>>
    /\ UNCHANGED <<qr_cancel_tx, qr_logins, nonQrVars>>

\* a frame the flow interprets as nothing: text that is not JSON, an unknown op,
\* Ping, Pong, Binary
QrIgnored ==
    /\ qr_pc = "loop"
    /\ qr_out' = <<>>
    /\ UNCHANGED <<qr_status, qr_pc, qr_cancel_tx, qr_cancel_rx, qr_hb, qr_logins, nonQrVars>>

\* serde_json::from_str fails: continue
QrMalformed == QrIgnored

\* `_ => {}` of the op match and of the message match
QrOtherFrame == QrIgnored

\* "hello": abort the previous heartbeat task, spawn a new one, send init
QrHello(ok) ==
    /\ qr_pc = "loop"
    /\ qr_out' = <<Sent(QrInit, ok)>>
    /\ IF ok
       THEN /\ qr_hb' = 1
            /\ UNCHANGED <<qr_status, qr_pc>>
       ELSE /\ qr_status' = SetStatus(QrError("Failed to send init"))
            /\ QrBreak
    /\ UNCHANGED <<qr_cancel_tx, qr_cancel_rx, qr_logins, nonQrVars>>

\* (variant: the proof is the standard, padded encoding of the digest)
NonceProof_StandardAlphabet(decrypted) == StandardEncode(Sha256(decrypted))

\* `URL_SAFE_NO_PAD.encode(Sha256::digest(&decrypted))`
NonceProof(decrypted) == UrlSafeNoPadEncode(Sha256(decrypted))

\* (variant: a nonce that does not decrypt is skipped and the flow goes on)
NonceFailure_Skipped(message) ==
    /\ UNCHANGED <<qr_status, qr_pc, qr_hb>>
    /\ qr_out' = <<>>

\* the Err arms of decode and decrypt: set_status(Error), break, nothing is sent
NonceFailure(message) ==
    /\ qr_status' = SetStatus(QrError(message))
    /\ QrBreak
    /\ qr_out' = <<>>

\* "nonce_proof": decode, decrypt, digest, send the proof
QrNonceProof(enc_nonce, ok) ==
    /\ qr_pc = "loop"
    /\ LET encrypted == StandardDecode(enc_nonce)
           decrypted == Decrypt(SessionKey, encrypted)
       IN
       IF encrypted = Failure
       THEN NonceFailure("Bad nonce base64")
       ELSE IF decrypted = Failure
       THEN NonceFailure("Nonce decrypt error")
       ELSE /\ qr_out' = <<Sent(QrProof(NonceProof(decrypted)), ok)>>
            /\ IF ok
               THEN UNCHANGED <<qr_status, qr_pc, qr_hb>>
               ELSE /\ qr_status' = SetStatus(QrError("Failed to send nonce_proof"))
                    /\ QrBreak
    /\ UNCHANGED <<qr_cancel_tx, qr_cancel_rx, qr_logins, nonQrVars>>

\* "pending_remote_init": an empty fingerprint or a QR encoding error ends the
\* flow; otherwise the status becomes QrReady
QrPendingRemoteInit(fingerprint, qr_ok) ==
    /\ qr_pc = "loop"
    /\ qr_out' = <<>>
    /\ IF fingerprint = Empty
       THEN /\ qr_status' = SetStatus(QrError("Empty fingerprint"))
            /\ QrBreak
       ELSE IF ~qr_ok
       THEN /\ qr_status' = SetStatus(QrError("QR encode error"))
            /\ QrBreak
       ELSE /\ qr_status' = SetStatus(QrStatus("QrReady", fingerprint))
            /\ UNCHANGED <<qr_pc, qr_hb>>
    /\ UNCHANGED <<qr_cancel_tx, qr_cancel_rx, qr_logins, nonQrVars>>

\* "pending_ticket": set_status(Scanned)
QrPendingTicket ==
    /\ qr_pc = "loop"
    /\ qr_out' = <<>>
    /\ qr_status' = SetStatus(QrStatus("Scanned", Empty))
    /\ UNCHANGED <<qr_pc, qr_cancel_tx, qr_cancel_rx, qr_hb, qr_logins, nonQrVars>>

\* set_status(Completing), then the exchange is awaited inside the read arm
QrBeginExchange ==
    /\ qr_status' = SetStatus(QrStatus("Completing", Empty))
    /\ qr_pc' = "exchange"
    /\ qr_logins' = qr_logins + 1
    /\ UNCHANGED qr_hb

\* "pending_login": an empty ticket ends the flow; otherwise finalize_with_ticket
QrPendingLogin(ticket) ==
    /\ qr_pc = "loop"
    /\ qr_out' = <<>>
    /\ IF ticket = Empty
       THEN /\ qr_status' = SetStatus(QrError("Empty ticket"))
            /\ QrBreak
            /\ UNCHANGED qr_logins
       ELSE QrBeginExchange
    /\ UNCHANGED <<qr_cancel_tx, qr_cancel_rx, nonQrVars>>

\* "finish": with an encrypted_token string decrypt_and_login, else nothing
QrFinish(has_token) ==
    /\ qr_pc = "loop"
    /\ qr_out' = <<>>
    /\ IF has_token
       THEN QrBeginExchange
       ELSE UNCHANGED <<qr_status, qr_pc, qr_hb, qr_logins>>
    /\ UNCHANGED <<qr_cancel_tx, qr_cancel_rx, nonQrVars>>

\* (variant: the flow ends without writing the outcome)
QrExchangeDone_NoStatus(ok) ==
    /\ qr_pc = "exchange"
    /\ QrBreak
    /\ qr_out' = <<>>
    /\ UNCHANGED <<qr_status, qr_cancel_tx, qr_cancel_rx, qr_logins, nonQrVars>>

\* finalize_with_ticket / decrypt_and_login returns: Completed{auth} or Error, break
QrExchangeDone(ok) ==
    /\ qr_pc = "exchange"
    /\ qr_status' = SetStatus(IF ok THEN QrStatus("Completed", "auth")
                              ELSE QrError("Login failed"))
    /\ QrBreak
    /\ qr_out' = <<>>
    /\ UNCHANGED <<qr_cancel_tx, qr_cancel_rx, qr_logins, nonQrVars>>

\* "cancel" from the peer: set_status(Cancelled), break
QrCancelFrame ==
    /\ qr_pc = "loop"
    /\ qr_status' = SetStatus(Cancelled)
    /\ QrBreak
    /\ qr_out' = <<>>
    /\ UNCHANGED <<qr_cancel_tx, qr_cancel_rx, qr_logins, nonQrVars>>

\* Close frame or end of stream: Error unless the status is already terminal
QrClosed ==
    /\ qr_pc = "loop"
    /\ qr_status' = IF qr_status.tag \in Terminal THEN qr_status
                    ELSE SetStatus(QrError("WebSocket closed by Discord"))
    /\ QrBreak
    /\ qr_out' = <<>>
    /\ UNCHANGED <<qr_cancel_tx, qr_cancel_rx, qr_logins, nonQrVars>>

\* Some(Err(e)) from the socket: set_status(Error), break
QrReadError ==
    /\ qr_pc = "loop"
    /\ qr_status' = SetStatus(QrError("WebSocket error"))
    /\ QrBreak
    /\ qr_out' = <<>>
    /\ UNCHANGED <<qr_cancel_tx, qr_cancel_rx, qr_logins, nonQrVars>>

\* the heartbeat task ticks: send {"op":"heartbeat"}; a failed send ends the task
QrHeartbeatTick(ok) ==
    /\ qr_hb > 0
    /\ qr_out' = <<Sent(QrHeartbeat, ok)>>
    /\ qr_hb' = IF ok THEN qr_hb ELSE qr_hb - 1
    /\ UNCHANGED <<qr_status, qr_pc, qr_cancel_tx, qr_cancel_rx, qr_logins, nonQrVars>>

\* encrypted_nonce values the peer may send
NoncePayloads ==
    {StandardEncode(Encrypt(k, Plain(n))) : k \in QrKeys, n \in Nonces}
      \cup {Text("text", Failure), StandardEncode(Plain(Empty)),
            UrlSafeNoPadEncode(Encrypt(SessionKey, Plain("n1")))}

ConnectErrors == {"RSA keygen error", "SPKI export error", "Request build error",
                  "WebSocket connection failed"}

NextQr ==
    \/ StartQrSession
    \/ StartOtherQrSession
    \/ CancelQrSession
    \/ \E m \in ConnectErrors : QrConnectFailed(m)
    \/ QrConnectOk
    \/ QrCancelSignal
    \/ QrMalformed
    \/ QrOtherFrame
    \/ \E ok \in BOOLEAN : QrHello(ok)
    \/ \E t \in NoncePayloads, ok \in BOOLEAN : QrNonceProof(t, ok)
    \/ \E f \in Fingerprints, qr_ok \in BOOLEAN : QrPendingRemoteInit(f, qr_ok)
    \/ QrPendingTicket
    \/ \E t \in Tickets : QrPendingLogin(t)
    \/ \E has_token \in BOOLEAN : QrFinish(has_token)
    \/ \E ok \in BOOLEAN : QrExchangeDone(ok)
    \/ QrCancelFrame
    \/ QrClosed
    \/ QrReadError
    \/ \E ok \in BOOLEAN : QrHeartbeatTick(ok)

SpecQr == Init /\ [][NextQr]_vars

\* ---------------------------------------------------------------- registry
\* mpsc::Sender::is_closed: the Receiver was dropped, i.e. run_gateway returned
IsClosed(a) == actor[a].state = "ended"

\* the task of actor a has been spawned and has not returned
Live(a) == actor[a].state \in {"connecting", "running", "drain"}

\* Senders of a's command channel: the registry entry and the handlers' clones
HasSender(a) ==
    \/ \E u \in AppUsers : gateways[u] = a
    \/ \E h \in HandlerIds : handler[h].tx = a

\* (variant: the lookup never finds a usable entry)
Reusable_Never(cur) == FALSE

\* "Check if existing session is still alive": an entry whose Sender is not closed
Reusable(cur) == cur # 0 /\ ~IsClosed(cur)

\* ensure_gateway_session, one critical section under the map's mutex: reuse the
\* entry unless its channel is closed, else remove it, spawn an actor and insert
EnsureGatewaySession(h, u, kind) ==
    /\ handler[h].pc = "idle"
    /\ LET cur == gateways[u]
           pcNext == IF kind = "participants" THEN "read" ELSE "send"
       IN
       IF Reusable(cur)
       THEN /\ handler' = [handler EXCEPT ![h] =
                             [pc |-> pcNext, user |-> u, kind |-> kind, tx |-> cur, status |-> 0]]
            /\ UNCHANGED <<gateways, actor>>
       ELSE /\ \E a \in ActorIds :
                 /\ actor[a].state = "unborn"
                 /\ \A b \in ActorIds : b < a => actor[b].state # "unborn"
                 /\ actor' = [actor EXCEPT ![a] = [state |-> "connecting", user |-> u]]
                 /\ gateways' = [gateways EXCEPT ![u] = a]
                 /\ handler' = [handler EXCEPT ![h] =
                                  [pc |-> pcNext, user |-> u, kind |-> kind, tx |-> a, status |-> 0]]
    /\ UNCHANGED <<gwVars, httpVars, qrVars, sideVars>>

\* voice_participants: read the presence snapshot and return 200
ReadParticipants(h) ==
    /\ handler[h].pc = "read"
    /\ handler' = [handler EXCEPT ![h].pc = "done", ![h].tx = 0, ![h].status = 200]
    /\ UNCHANGED <<gateways, actor, gwVars, httpVars, qrVars, sideVars>>

\* cmd_tx.send(..).await succeeds while the Receiver exists
SendOk(h) ==
    /\ handler[h].pc = "send"
    /\ ~IsClosed(handler[h].tx)
    /\ handler' = [handler EXCEPT ![h].pc = "wait"]
    /\ UNCHANGED <<gateways, actor, gwVars, httpVars, qrVars, sideVars>>

\* cmd_tx.send(..).await fails: the actor has ended
SendFail(h) ==
    /\ handler[h].pc = "send"
    /\ IsClosed(handler[h].tx)
    /\ handler' = [handler EXCEPT ![h].pc = "evict"]
    /\ UNCHANGED <<gateways, actor, gwVars, httpVars, qrVars, sideVars>>

\* (variant: the failure is reported and the entry stays)
Evict_KeepsEntry(h) ==
    /\ handler[h].pc = "evict"
    /\ handler' = [handler EXCEPT ![h].pc = "done", ![h].tx = 0, ![h].status = 500]
    /\ UNCHANGED <<gateways, actor, gwVars, httpVars, qrVars, sideVars>>

\* "Gateway task died, remove from map": lock, map.remove(user), return 500
Evict(h) ==
    /\ handler[h].pc = "evict"
    /\ gateways' = [gateways EXCEPT ![handler[h].user] = 0]
    /\ handler' = [handler EXCEPT ![h].pc = "done", ![h].tx = 0, ![h].status = 500]
    /\ UNCHANGED <<actor, gwVars, httpVars, qrVars, sideVars>>

\* the wait on reply_rx ends: a result from the actor (200 or 502), the channel
\* dropped by an ended actor (500), or the timeout (504 for join, 500 for leave)
AwaitReply(h, status) ==
    /\ handler[h].pc = "wait"
    /\ LET st == actor[handler[h].tx].state IN
       \/ status = 200 /\ st = "running"
       \/ status = 502 /\ st \in {"running", "drain"}
       \/ status = 500 /\ st = "ended"
       \/ status = 504 /\ handler[h].kind = "join"
       \/ status = 500 /\ handler[h].kind = "leave"
    /\ handler' = [handler EXCEPT ![h].pc = "done", ![h].tx = 0, ![h].status = status]
    /\ UNCHANGED <<gateways, actor, gwVars, httpVars, qrVars, sideVars>>

\* connect_async of actor a succeeds
ActorConnected(a) ==
    /\ actor[a].state = "connecting"
    /\ actor' = [actor EXCEPT ![a].state = "running"]
    /\ UNCHANGED <<gateways, handler, gwVars, httpVars, qrVars, sideVars>>

\* connect_async of actor a fails: the drain loop runs until every Sender is gone
ActorConnectFailed(a) ==
    /\ actor[a].state = "connecting"
    /\ actor' = [actor EXCEPT ![a].state = "drain"]
    /\ UNCHANGED <<gateways, handler, gwVars, httpVars, qrVars, sideVars>>

\* the select loop of actor a ends (close, stream end, op 7, op 9, failed
\* heartbeat send) and run_gateway returns
ActorExit(a) ==
    /\ actor[a].state = "running"
    /\ actor' = [actor EXCEPT ![a].state = "ended"]
    /\ UNCHANGED <<gateways, handler, gwVars, httpVars, qrVars, sideVars>>

\* cmd_rx.recv() yields None in the select loop or the drain loop
ActorOrphaned(a) ==
    /\ actor[a].state \in {"running", "drain"}
    /\ ~HasSender(a)
    /\ actor' = [actor EXCEPT ![a].state = "ended"]
    /\ UNCHANGED <<gateways, handler, gwVars, httpVars, qrVars, sideVars>>

NextReg ==
    \/ \E h \in HandlerIds, u \in AppUsers, kind \in {"join", "leave", "participants"} :
          EnsureGatewaySession(h, u, kind)
    \/ \E h \in HandlerIds : ReadParticipants(h)
    \/ \E h \in HandlerIds : SendOk(h)
    \/ \E h \in HandlerIds : SendFail(h)
    \/ \E h \in HandlerIds : Evict(h)
    \/ \E h \in HandlerIds, status \in {200, 500, 502, 504} : AwaitReply(h, status)
    \/ \E a \in ActorIds : ActorConnected(a)
    \/ \E a \in ActorIds : ActorConnectFailed(a)
    \/ \E a \in ActorIds : ActorExit(a)
    \/ \E a \in ActorIds : ActorOrphaned(a)

SpecReg == Init /\ [][NextReg]_vars

TypeOK ==
    /\ phase \in {"connecting", "running", "drain", "ended"}
    /\ Len(pending_voice_join) <= 1
    /\ Len(queued_join) <= 1
    /\ Len(cmd_rx) <= MaxCmdQ


\* ---------------------------------------------------------------- steps
\* the running actor takes a command of the given kind from the channel
Handles(kind) ==
    /\ phase = "running" /\ phase' = "running"
    /\ cmd_rx # <<>> /\ Head(cmd_rx).kind = kind
    /\ cmd_rx' = Tail(cmd_rx)

\* the actor processes a VOICE_SERVER_UPDATE that carries a data object
ServerUpdateStep ==
    \E s \in OptSeq, p \in ServerPayloads : VoiceServerUpdate(s, TRUE, p[1], p[2], p[3])

\* the actor processes READY or READY_SUPPLEMENTAL
ReadyStep ==
    \E s \in OptSeq, name \in {"READY", "READY_SUPPLEMENTAL"}, d \in BOOLEAN,
       p \in ReadyPayloads : Ready(s, name, d, p[1], p[2])

Tracked == SlotReplies(pending_voice_join) \cup SlotReplies(queued_join)
IsSuccess(results) == results # <<>> /\ results[1].tag = "ok"

C2_ReplyAtMostOnce ==
    /\ \A r \in ReplyIds :
         /\ Len(reply[r]) <= 1
         /\ reply[r] # <<>> => r \notin Held
         /\ r >= next_reply => r \notin Held /\ reply[r] = <<>>
    /\ Cardinality(Held) = Len(pending_voice_join) + Len(queued_join) + Len(cmd_rx)

\* one request already answered while another is still held by the actor
C2_Witness ==
    \E r1, r2 \in ReplyIds : /\ reply[r1] # <<>> /\ reply[r1][1].tag = "err"
                             /\ r2 \in Tracked /\ phase = "running"

\* ---------------------------------------------------------------- C3
\* C3 as stated: when a join command is handled while an earlier join is pending,
\* the earlier join is answered Superseded and afterwards no join other than the
\* newer one is tracked.
C3_SecondJoinSupersedes ==
    [][Handles("JoinVoice") /\ pending_voice_join # <<>> =>
         /\ reply'[pending_voice_join[1].reply] = <<Superseded>>
         /\ Tracked' \subseteq {Head(cmd_rx).reply}]_vars

\* ---------------------------------------------------------------- C4
\* C4: a join handled while no session id is captured writes no frame and becomes
\* the queued join; a READY (or READY_SUPPLEMENTAL) processed while a join is
\* queued writes that join's voice-state frame to the socket and makes it the
\* pending join, taking no command from the channel.
C4_QueuedJoinReplayedAtReady ==
    [][/\ Handles("JoinVoice") /\ session_id = Null =>
            /\ out' = <<>>
            /\ queued_join' = <<Head(cmd_rx)>>
       /\ ReadyStep /\ queued_join # <<>> =>
            LET q == queued_join[1] IN
            /\ out' = <<Sent(VoiceState(q.guild_id, q.channel_id), ws_up)>>
            /\ pending_voice_join' = <<PendingJoin(q.guild_id, q.channel_id, q.reply)>>
            /\ queued_join' = <<>>
            /\ cmd_rx' = cmd_rx]_vars

\* a replayed join: the only frame of the step is the join frame, and the join is pending
C4_Witness ==
    /\ pending_voice_join # <<>>
    /\ out = <<Sent(VoiceState(pending_voice_join[1].guild_id,
                               pending_voice_join[1].channel_id), TRUE)>>

\* ---------------------------------------------------------------- C5
\* C5 as stated: a join handled before Ready while an older join is queued
\* answers the older join Superseded.
C5_OlderQueuedJoinSuperseded ==
    [][Handles("JoinVoice") /\ session_id = Null /\ queued_join # <<>> =>
         reply'[queued_join[1].reply] = <<Superseded>>]_vars

\* ---------------------------------------------------------------- C6
\* C6 as stated: the queued slot and the pending slot never hold a join each.
C6_AtMostOneUnresolvedJoin == Len(pending_voice_join) + Len(queued_join) <= 1

\* ---------------------------------------------------------------- C7
\* C7: the step that takes a leave command writes the channel=null frame for its
\* guild and answers the command in that same step, Ok if the write succeeded and
\* a failure if it did not; the command is never kept for a later frame.
C7_LeaveAnsweredAtSend ==
    [][Handles("LeaveVoice") =>
         LET cmd == Head(cmd_rx) IN
         /\ out' = <<Sent(VoiceState(cmd.guild_id, Null), ws_up)>>
         /\ reply'[cmd.reply] = <<IF ws_up THEN Ok(NoInfo)
                                  ELSE Err("Failed to send voice leave")>>
         /\ cmd.reply \notin Held']_vars

\* a leave answered Ok before Ready, with a join still queued
C7_Witness ==
    \E r \in ReplyIds : /\ reply[r] = <<Ok(NoInfo)>>
                        /\ out = <<Sent(VoiceState("g1", Null), TRUE)>>
                        /\ session_id = Null /\ queued_join # <<>>

\* ---------------------------------------------------------------- C8
\* C8: the presence entry of every (guild, user) is the one the last
\* VOICE_STATE_UPDATE for that pair left: absent after a null channel (or when no
\* event came), otherwise a participant in that event's channel; for every user.
C8_PresenceFollowsLastEvent ==
    \A g \in Guilds, u \in PlatformUsers :
        presence[g][u] = IF last_vsu[g][u] = Null THEN NoEntry
                         ELSE Participant(u, last_vsu[g][u])

\* the owner is known, another user sits in a channel and the owner has none
C8_Witness ==
    /\ discord_user_id = "u1"
    /\ presence["g2"]["u2"] = Participant("u2", "c2")
    /\ presence["g2"]["u1"] = NoEntry
    /\ presence["g1"]["u1"] = Participant("u1", "c1")

\* ---------------------------------------------------------------- C9
\* C9 as stated: at most one live actor per user, and the eviction after a failed
\* send removes no entry other than the one the handler obtained.
C9_AtMostOneLiveActor ==
    /\ [](\A u \in AppUsers : Cardinality({a \in ActorIds : Live(a) /\ actor[a].user = u}) <= 1)
    /\ [][\A h \in HandlerIds :
            handler[h].pc = "evict" /\ handler'[h].pc = "done"
              => gateways[handler[h].user] \in {0, handler[h].tx}]_vars

\* ---------------------------------------------------------------- C10
\* C10 as stated: a request never obtains the session of an actor that has
\* failed (its connection failed, or its loop ended).
C10_FailedSessionNotReused ==
    [][\A h \in HandlerIds :
         handler[h].pc = "idle" /\ handler'[h].pc # "idle"
           => actor[handler'[h].tx].state \notin {"drain", "ended"}]_vars

\* ---------------------------------------------------------------- C11
\* C11: the step in which a join's external wait expires answers 504, which no
\* result reported by the actor maps to, happens only while nothing was
\* delivered on the reply channel, and changes nothing of the actor's state; a
\* join whose caller timed out leaves the queued and pending slots only by the
\* actor answering or dropping it, and the caller's outcome stays 504.
C11_TimeoutLeavesJoinHeld ==
    [][\A r \in ReplyIds :
         /\ response[r] = 0 /\ response'[r] = 504 =>
              /\ reply[r] = <<>>
              /\ UNCHANGED gwVars
              /\ \A res \in {Ok(NoInfo), Err(Empty), Dropped} : JoinResponse(res) # 504
         /\ response[r] = 504 => response'[r] = 504
         /\ response[r] = 504 /\ r \in Tracked /\ r \notin Tracked' => reply'[r] # <<>>]_vars

\* a join whose caller saw the timeout is afterwards resolved by the actor
C11_Witness ==
    \E r \in ReplyIds : /\ response[r] = 504
                        /\ IsSuccess(reply[r])
                        /\ reply[r][1].info.session_id = "s1"

\* ---------------------------------------------------------------- C12
\* C12: in the scenario the Identify frame is sent exactly once, by the first
\* Hello, and the join is answered with nothing but the success
\* {token T, endpoint ep, guild_id g1, session_id s1, user_id u1}, once.
C12_ScenarioResolves ==
    /\ identify_count = (IF identified THEN 1 ELSE 0)
    /\ reply[1] # <<>> =>
         /\ reply[1] = <<Ok([token |-> "T", endpoint |-> "ep", guild_id |-> "g1",
                             session_id |-> "s1", user_id |-> "u1"])>>
         /\ identify_count = 1
         /\ pending_voice_join = <<>> /\ queued_join = <<>>

\* the scenario has run to its end: both voice events came and the join is answered
C12_Witness ==
    /\ IsSuccess(reply[1])
    /\ arrived = {"state", "server"}
    /\ identify_count = 1
    /\ presence["g1"]["u1"] = Participant("u1", "c1")

\* ---------------------------------------------------------------- steps of the QR flow
\* the flow processes a nonce_proof frame carrying encrypted_nonce t
NonceProofStep(t) == \E ok \in BOOLEAN : QrNonceProof(t, ok)

\* position of a status in Connecting, WaitingForQr, QrReady, Scanned,
\* Completing, terminal
StatusRank(st) ==
    CASE st.tag = "Connecting" -> 0
      [] st.tag = "WaitingForQr" -> 1
      [] st.tag = "QrReady" -> 2
      [] st.tag = "Scanned" -> 3
      [] st.tag = "Completing" -> 4
      [] OTHER -> 5

\* ---------------------------------------------------------------- C13
\* C13: the step that processes a nonce_proof frame whose encrypted nonce does
\* not decode or does not decrypt sends nothing, ends the flow (with its
\* heartbeat task) and leaves the session, if it is still in the map, in Error.
C13_BadNonceEndsFlow ==
    [][\A t \in NoncePayloads :
         NonceProofStep(t) /\ Decrypt(SessionKey, StandardDecode(t)) = Failure =>
           /\ qr_out' = <<>>
           /\ qr_pc' = "ended"
           /\ qr_hb' = 0
           /\ qr_status # Absent => qr_status'.tag = "Error"]_vars

\* a nonce encrypted for another key ended the flow of a session that had a
\* heartbeat running
C13_Witness ==
    /\ qr_status = QrError("Nonce decrypt error")
    /\ qr_pc = "ended"
    /\ qr_out = <<>>
    /\ qr_hb = 0

\* ---------------------------------------------------------------- C14
\* C14 as stated: once a cancel request has set Cancelled, the status is never
\* replaced by another one (the entry may only be removed from the map), and an
\* ended flow has no heartbeat task.
C14_CancelledIsFinal ==
    /\ [][qr_status = Cancelled => qr_status' \in {Cancelled, Absent}]_vars
    /\ [](qr_pc = "ended" => qr_hb = 0)

\* ---------------------------------------------------------------- C15
\* C15: the step that processes a nonce_proof frame carrying the standard
\* base64 of a nonce encrypted with the session's public key, and whose write
\* succeeds, sends exactly one frame, the nonce_proof whose proof is the
\* URL-safe unpadded base64 of the SHA-256 digest of that nonce, and changes
\* neither the status nor the flow's position.
C15_ProofRoundTrip ==
    [][\A n \in Nonces :
         QrNonceProof(StandardEncode(Encrypt(SessionKey, Plain(n))), TRUE) =>
           /\ qr_out' = <<Sent(QrProof(UrlSafeNoPadEncode(Sha256(Plain(n)))), TRUE)>>
           /\ qr_status' = qr_status
           /\ qr_pc' = "loop"]_vars

\* the proof of nonce n2 was sent while the QR code is shown
C15_Witness ==
    /\ qr_out = <<Sent(QrProof(UrlSafeNoPadEncode(Sha256(Plain("n2")))), TRUE)>>
    /\ qr_status = QrStatus("QrReady", "fp1")
    /\ qr_pc = "loop"

\* ---------------------------------------------------------------- C16
\* C16 as stated: while the session is in the map, no step moves its status to an
\* earlier position of Connecting, WaitingForQr, QrReady, Scanned, Completing,
\* terminal.
C16_StatusNeverMovesBack ==
    [][qr_status # Absent /\ qr_status' # Absent =>
         StatusRank(qr_status') >= StatusRank(qr_status)]_vars

\* ---------------------------------------------------------------- C17
\* C17: a join request gets its HTTP status once and keeps it, and the status is
\* the one its reply channel determines: 200 for a VoiceServerInfo, 502 for a
\* failure reported by the actor, 500 for a channel dropped without a result or
\* a command that could not be sent, and 504 only while nothing has arrived.
C17_OutcomeFollowsReplyChannel ==
    [][\A r \in ReplyIds :
         /\ response[r] # 0 => response'[r] = response[r]
         /\ response[r] = 0 /\ response'[r] # 0 =>
              \/ /\ reply[r] # <<>> /\ reply[r][1].tag = "ok"
                 /\ response'[r] = 200
              \/ /\ reply[r] # <<>> /\ reply[r][1].tag = "err"
                 /\ response'[r] = 502
              \/ /\ reply[r] # <<>> /\ reply[r][1].tag = "dropped"
                 /\ response'[r] = 500
              \/ /\ reply[r] = <<>> /\ r = next_reply /\ phase = "ended"
                 /\ response'[r] = 500 /\ r \notin Held'
              \/ /\ reply[r] = <<>> /\ r < next_reply
                 /\ response'[r] = 504]_vars

\* one request answered 200 and another 500 after its channel was dropped
C17_Witness ==
    \E r1, r2 \in ReplyIds : /\ response[r1] = 200 /\ IsSuccess(reply[r1])
                             /\ response[r2] = 500 /\ reply[r2] = <<Dropped>>

\* ---------------------------------------------------------------- C18
\* C18 as stated: in every actor step, a voice-state frame with a channel is
\* written right after a voice-state frame with channel null for the same guild
\* written in that step.
C18_LeaveBeforeJoin ==
    \A i \in DOMAIN out :
        out[i].frame.op = 4 /\ out[i].frame.channel_id # Null =>
            /\ i > 1
            /\ out[i - 1].frame = VoiceState(out[i].frame.guild_id, Null)

\* ---------------------------------------------------------------- C19
\* C19: the step that processes op 7 or op 9 ends the actor, writes no frame and
\* answers a pending join with exactly one failure; an ended actor never runs
\* again and nothing of its state, its socket output or the reply channels
\* changes afterwards.
C19_ReconnectAndInvalidSessionEnd ==
    /\ [][(\E s \in OptSeq : Reconnect(s) \/ InvalidSession(s)) =>
            /\ phase' = "ended"
            /\ out' = <<>>
            /\ pending_voice_join # <<>> =>
                 LET r == pending_voice_join[1].reply IN
                 /\ Len(reply'[r]) = 1
                 /\ reply'[r][1].tag = "err"
                 /\ reply'[r][1].err # Empty]_vars
    /\ [][phase = "ended" =>
            UNCHANGED <<phase, sequence, readyVars, identified, pending_voice_join,
                        queued_join, voiceVars, presence, cmd_rx, ws_up, reply, out,
                        identify_count>>]_vars

\* op 9 ended an actor that had a join pending and a heartbeat task running
C19_Witness ==
    /\ phase = "ended"
    /\ hb_tasks > 0
    /\ \E r \in ReplyIds : reply[r] = <<Err("Discord session invalid")>>

\* ---------------------------------------------------------------- C20
\* C20 as stated: the step that observes a close frame or the end of the stream,
\* a read error, or a failed heartbeat send ends the actor and answers a pending
\* join with a failure that carries a reason.
C20_SocketLossEndsActor ==
    [][WsClosed \/ WsReadError \/ (HeartbeatTick /\ ~ws_up) =>
         /\ phase' = "ended"
         /\ pending_voice_join # <<>> =>
              LET r == pending_voice_join[1].reply IN
              /\ reply'[r] # <<>>
              /\ reply'[r][1].tag = "err"
              /\ reply'[r][1].err # Empty]_vars

\* ---------------------------------------------------------------- C21
\* C21 as stated: the step in which the running actor ends answers every join it
\* holds, in the pending slot or the queued slot, with exactly one failure.
C21_ExitFailsEveryHeldJoin ==
    [][phase = "running" /\ phase' = "ended" =>
         \A r \in Tracked : /\ Len(reply'[r]) = 1
                            /\ reply'[r][1].tag = "err"]_vars

\* ---------------------------------------------------------------- C22
\* C22: at most one Identify frame is ever sent; it is sent by the step that
\* processes a Hello while none was sent before, so never before the first
\* Hello, and a later Hello sends nothing.
C22_IdentifyAtMostOnce ==
    /\ [](identify_count <= 1 /\ (identify_count = 1 => hb_tasks >= 1))
    /\ [][identify_count' # identify_count =>
            /\ \E s \in OptSeq : Hello(s)
            /\ identify_count = 0
            /\ out' = <<Sent(Identify, ws_up)>>]_vars
    /\ [][out' # out /\ (\E i \in DOMAIN out' : out'[i].frame = Identify) =>
            identify_count' = identify_count + 1]_vars

\* a second Hello was processed and sent nothing
C22_Witness ==
    /\ identify_count = 1
    /\ hb_tasks = 2
    /\ out = <<>>
    /\ phase = "running"

\* ---------------------------------------------------------------- C23
\* the actor processes a JSON text frame whose "s" is s (NoSeq: it has none);
\* every op and dispatch name, with or without "d", one payload of each shape
JsonFrame(s) ==
    \/ HeartbeatAck(s)
    \/ OtherFrame(s)
    \/ Hello(s)
    \/ \E name \in {"READY", "READY_SUPPLEMENTAL"}, d \in BOOLEAN :
          Ready(s, name, d, "s1", "u1")
    \/ \E d \in BOOLEAN, c \in OptChannel : VoiceStateUpdate(s, d, "g1", c, "u1")
    \/ \E d \in BOOLEAN : VoiceServerUpdate(s, d, "T", "ep", "g1")
    \/ Reconnect(s)
    \/ InvalidSession(s)

\* the frames of one connection, each carrying any sequence number or none,
\* among heartbeat ticks and frames that are not JSON text
NextSeq ==
    \/ ConnectOk
    \/ Malformed
    \/ WsOther
    \/ WsReadError
    \/ \E s \in OptSeq : JsonFrame(s)
    \/ HeartbeatTick
    \/ WsClosed
    \/ CmdClosed
    \/ SocketBreak

SpecSeq == Init /\ [][NextSeq]_vars

\* C23: the stored sequence number becomes s at every frame that carries s and
\* changes at no other step, so it is the one of the most recent frame that
\* carried one (none before the first); the heartbeat tick sends one op 1 frame
\* carrying the stored number, and no op 1 frame carries anything else.
C23_HeartbeatCarriesLastSequence ==
    /\ [][/\ \A s \in SeqVals : sequence' = s \/ ~JsonFrame(s)
          /\ sequence' # sequence => \E s \in SeqVals : JsonFrame(s)
          /\ HeartbeatTick => out' = <<Sent(Heartbeat(sequence), ws_up)>>]_vars
    /\ [](\A i \in DOMAIN out : out[i].frame.op = 1 => out[i].frame.d = sequence)

\* a heartbeat carrying 1 was sent by an actor that has seen READY and a voice state
C23_Witness ==
    /\ out = <<Sent(Heartbeat(1), TRUE)>>
    /\ sequence = 1
    /\ session_id = "s1"
    /\ presence["g1"]["u1"] = Participant("u1", "c1")

\* the registry under join and leave requests only
NextCmd ==
    \/ \E h \in HandlerIds, u \in AppUsers, kind \in {"join", "leave"} :
          EnsureGatewaySession(h, u, kind)
    \/ \E h \in HandlerIds : SendOk(h)
    \/ \E h \in HandlerIds : SendFail(h)
    \/ \E h \in HandlerIds : Evict(h)
    \/ \E h \in HandlerIds, status \in {200, 500, 502, 504} : AwaitReply(h, status)
    \/ \E a \in ActorIds : ActorConnected(a)
    \/ \E a \in ActorIds : ActorConnectFailed(a)
    \/ \E a \in ActorIds : ActorExit(a)
    \/ \E a \in ActorIds : ActorOrphaned(a)

SpecCmd == Init /\ [][NextCmd]_vars

\* ---------------------------------------------------------------- C24
\* the actors spawned so far for user u
Spawned(u) == {a \in ActorIds : actor[a].state # "unborn" /\ actor[a].user = u}

\* C24: an ensure call for a user whose entry holds a session that has not ended
\* spawns nothing and returns that session; any other ensure call spawns exactly
\* one actor, registers it and returns it.  Hence, as long as no session of the
\* user has ended, however the calls of the handlers interleave, one actor has
\* been spawned for the user and every handle held for the user is a handle to it.
C24_ConcurrentEnsureSharesOneSession ==
    /\ [][\A h \in HandlerIds, u \in AppUsers :
            handler[h].pc = "idle" /\ handler'[h].pc # "idle" /\ handler'[h].user = u =>
              LET new == {a \in ActorIds : actor[a].state = "unborn" /\
                                           actor'[a].state # "unborn"}
              IN  IF gateways[u] # 0 /\ actor[gateways[u]].state # "ended"
                  THEN new = {} /\ gateways' = gateways /\ handler'[h].tx = gateways[u]
                  ELSE /\ Cardinality(new) = 1
                       /\ handler'[h].tx \in new
                       /\ gateways'[u] = handler'[h].tx
                       /\ actor'[handler'[h].tx].user = u]_vars
    /\ [](\A u \in AppUsers :
            (\A a \in Spawned(u) : actor[a].state # "ended") =>
               /\ Cardinality(Spawned(u)) <= 1
               /\ \A h \in HandlerIds :
                    handler[h].user = u /\ handler[h].tx # 0 =>
                       Spawned(u) = {handler[h].tx} /\ gateways[u] = handler[h].tx)

\* three requests of one user hold handles at once, and one actor was spawned
C24_Witness ==
    /\ \A h \in HandlerIds : handler[h].user = "alice" /\ handler[h].tx = 1
    /\ Spawned("alice") = {1}
    /\ actor[1].state = "connecting"

\* ---------------------------------------------------------------- C25
\* C25: a handler whose join or leave command meets a closed channel sends
\* nothing and waits for no reply: its next step removes the entry of its user
\* from the map and answers 500; and an ensure call that finds no entry for its
\* user spawns a new actor and registers it.
C25_SendFailureEvicts ==
    [][\A h \in HandlerIds :
         /\ handler[h].pc = "send" /\ IsClosed(handler[h].tx) /\ handler'[h] # handler[h] =>
               handler'[h].pc = "evict" /\ gateways' = gateways
         /\ handler[h].pc = "evict" /\ handler'[h] # handler[h] =>
               /\ handler[h].kind \in {"join", "leave"}
               /\ gateways'[handler[h].user] = 0
               /\ handler'[h].pc = "done"
               /\ handler'[h].status = 500
         /\ handler[h].pc = "idle" /\ handler'[h].pc # "idle" /\
            gateways[handler'[h].user] = 0 =>
               /\ actor[handler'[h].tx].state = "unborn"
               /\ actor'[handler'[h].tx].state = "connecting"
               /\ gateways'[handler'[h].user] = handler'[h].tx]_vars

\* the only session of alice has ended, a leave request was answered 500 and
\* the map holds no entry for alice
C25_Witness ==
    /\ Spawned("alice") = {1}
    /\ actor[1].state = "ended"
    /\ gateways["alice"] = 0
    /\ \E h \in HandlerIds : /\ handler[h].pc = "done"
                             /\ handler[h].kind = "leave"
                             /\ handler[h].status = 500

\* ---------------------------------------------------------------- C26
\* one voice join on the gateway and one QR login side by side
NextBoth ==
    \/ NextScenario
    \/ NextQr

SpecBoth == Init /\ [][NextBoth]_vars

\* C26: a text frame that is not JSON leaves the actor running with its sequence
\* number, session id, user id, identified flag, queued and pending join, voice
\* data, presence, heartbeat tasks and reply channels as they were, and sends
\* nothing; in the remote-auth flow it leaves the QR status, the position of the
\* flow and its heartbeat task as they were, and sends nothing.
C26_MalformedFrameDropped ==
    [][/\ Malformed =>
            /\ phase' = "running"
            /\ UNCHANGED <<sequence, readyVars, identified, queued_join,
                           pending_voice_join, voiceVars, presence, hb_tasks,
                           cmd_rx, reply, qr_status>>
            /\ out' = <<>>
       /\ QrMalformed =>
            /\ qr_pc' = "loop"
            /\ UNCHANGED <<qr_status, qr_hb, qr_cancel_rx, qr_logins, sequence, presence>>
            /\ qr_out' = <<>>]_vars

\* the actor holds a sequence number, a session and a pending join, the QR code
\* was scanned, and the last frame of each sent nothing
C26_Witness ==
    /\ phase = "running" /\ sequence = 2 /\ session_id = "s1" /\ identified
    /\ pending_voice_join # <<>>
    /\ presence["g1"]["u1"] = Participant("u1", "c1")
    /\ out = <<>>
    /\ qr_pc = "loop" /\ qr_status.tag = "Scanned" /\ qr_out = <<>>

\* ---------------------------------------------------------------- C27
\* reply channel r has left the command channel: answered, dropped or kept in a slot
Taken(r) == reply[r] # <<>> \/ r \in Tracked

\* C27: the commands wait in the channel in the order they were sent, and no
\* command is taken while one sent before it waits.  The channel changes only
\* by one command appended, by its oldest command taken, or by being emptied
\* when the actor ends.  The step that takes a command of a running actor
\* handles that command and nothing else: a leave sends its one frame and is
\* answered, a join before READY is kept and sends nothing, a join after READY
\* sends its leave frame and then its join frame with no frame between them;
\* no frame is interpreted and no heartbeat is sent in that step, and the
\* commands behind it stay untouched.
C27_CommandsOneAtATimeInOrder ==
    /\ [](\A i \in DOMAIN cmd_rx :
            /\ \A j \in DOMAIN cmd_rx : i < j => cmd_rx[i].reply < cmd_rx[j].reply
            /\ \A r \in ReplyIds : Taken(r) => r < cmd_rx[i].reply)
    /\ [][cmd_rx' # cmd_rx =>
            \/ \E cmd \in {JoinCommand(t[1], t[2], next_reply) : t \in JoinTargets} \cup
                          {LeaveCommand(g, next_reply) : g \in LeaveTargets} :
                  cmd_rx' = Append(cmd_rx, cmd) /\ UNCHANGED <<reply, out, phase>>
            \/ cmd_rx' = Tail(cmd_rx) /\ phase' = phase
            \/ cmd_rx' = <<>> /\ phase' = "ended"]_vars
    /\ [][phase = "running" /\ phase' = "running" /\ cmd_rx # <<>> /\ cmd_rx' = Tail(cmd_rx) =>
            LET cmd == Head(cmd_rx) IN
            /\ reply'[cmd.reply] # <<>> \/ cmd.reply \in Tracked'
            /\ \A i \in 2..Len(cmd_rx) : /\ reply'[cmd_rx[i].reply] = <<>>
                                          /\ cmd_rx[i].reply \notin Tracked'
            /\ UNCHANGED <<sequence, readyVars, identified, presence, hb_tasks>>
            /\ IF cmd.kind = "LeaveVoice"
               THEN /\ Len(out') = 1
                    /\ out'[1].frame = VoiceState(cmd.guild_id, Null)
                    /\ Len(reply'[cmd.reply]) = 1
               ELSE IF session_id = Null
               THEN out' = <<>> /\ queued_join' = <<cmd>>
               ELSE /\ Len(out') = 2
                    /\ out'[1].frame = VoiceState(cmd.guild_id, Null)
                    /\ out'[2].frame = VoiceState(cmd.guild_id, cmd.channel_id)]_vars

\* a leave sent after a join waits in the channel while the join, taken first,
\* is pending with both of its frames sent
C27_Witness ==
    /\ phase = "running"
    /\ cmd_rx = <<LeaveCommand("g1", 2)>>
    /\ pending_voice_join = <<PendingJoin("g1", "c1", 1)>>
    /\ out = <<Sent(VoiceState("g1", Null), TRUE), Sent(VoiceState("g1", "c1"), TRUE)>>

\* ---------------------------------------------------------------- C30
\* C30 as stated: the step at which the flow reads a Close frame, the end of
\* the stream or a socket error ends the flow and stops its heartbeat task; it
\* sets the status to Error if the status was not terminal, and leaves a
\* terminal status as it was.
C30_CloseKeepsTerminalStatus ==
    [][QrClosed \/ QrReadError =>
         /\ qr_pc' = "ended"
         /\ qr_hb' = 0
         /\ qr_status.tag \in PreTerminal => qr_status'.tag = "Error"
         /\ qr_status.tag \in Terminal => qr_status' = qr_status]_vars

\* ---------------------------------------------------------------- voice_participants
\* guild ids a query may name: the guilds of the cache and one it never saw
QueryGuilds == Guilds \cup {"g3"}

\* guild_map.values(): the entries of the guild's map
GuildEntries(p, g) == {p[g][u] : u \in PlatformUsers} \ {NoEntry}

\* (variant: the channel of the query is not applied)
Participants_IgnoresChannel(p, g, c) ==
    IF g \notin DOMAIN p THEN {} ELSE GuildEntries(p, g)

\* by_guild.get(guild_id), values().cloned(), retain(channel_id == Some(c))
Participants(p, g, c) ==
    IF g \notin DOMAIN p
    THEN {}
    ELSE IF c = Null
    THEN GuildEntries(p, g)
    ELSE {x \in GuildEntries(p, g) : x.channel_id = c}

\* the orders in which a HashMap may yield the members of S
Orderings(S) ==
    {f \in [1..Cardinality(S) -> S] : \A x \in S : \E i \in 1..Cardinality(S) : f[i] = x}

\* GET voice/participants?guild_id=g&channel_id=c (c = Null: no channel given),
\* after the 401 and 400 checks: lock the cache, collect, filter, answer 200
VoiceParticipants(g, c) ==
    /\ phase # "ended"
    /\ listing' \in Orderings(Participants(presence, g, c))
    /\ UNCHANGED <<gwVars, regVars, httpVars, qrVars, sibling>>

\* one session under voice state events of every shape and participants reads
NextPresence ==
    \/ ConnectOk
    \/ \E d \in BOOLEAN, g \in EventGuild, c \in OptChannel, u \in EventUser :
          VoiceStateUpdate(NoSeq, d, g, c, u)
    \/ \E g \in QueryGuilds, c \in OptChannel : VoiceParticipants(g, c)
    \/ WsClosed

SpecPresence == Init /\ [][NextPresence]_vars

ThisSession ==
    [phase |-> phase, sequence |-> sequence, session_id |-> session_id,
     discord_user_id |-> discord_user_id, identified |-> identified,
     pending_voice_join |-> pending_voice_join, queued_join |-> queued_join,
     voice_token |-> voice_token, voice_endpoint |-> voice_endpoint,
     voice_guild_id |-> voice_guild_id, presence |-> presence,
     hb_tasks |-> hb_tasks, cmd_rx |-> cmd_rx, ws_up |-> ws_up, out |-> out,
     arrived |-> arrived, last_vsu |-> last_vsu, identify_count |-> identify_count]

\* (variant: the sessions share one presence cache)
SessionPresence_Shared(own, other) == other

\* the cache a session reads and writes: the Arc created for it, not the other's
SessionPresence(own, other) == own

\* The sessions of two users run side by side, each an actor with its own
\* locals, socket, command channel and cache.  The actions act on one of them;
\* this step turns to the other one, and changes neither.
SwitchSession ==
    /\ sibling' = [ThisSession EXCEPT !.presence = SessionPresence(presence, sibling.presence)]
    /\ phase' = sibling.phase
    /\ sequence' = sibling.sequence
    /\ session_id' = sibling.session_id
    /\ discord_user_id' = sibling.discord_user_id
    /\ identified' = sibling.identified
    /\ pending_voice_join' = sibling.pending_voice_join
    /\ queued_join' = sibling.queued_join
    /\ voice_token' = sibling.voice_token
    /\ voice_endpoint' = sibling.voice_endpoint
    /\ voice_guild_id' = sibling.voice_guild_id
    /\ presence' = SessionPresence(sibling.presence, presence)
    /\ hb_tasks' = sibling.hb_tasks
    /\ cmd_rx' = sibling.cmd_rx
    /\ ws_up' = sibling.ws_up
    /\ out' = sibling.out
    /\ arrived' = sibling.arrived
    /\ last_vsu' = sibling.last_vsu
    /\ identify_count' = sibling.identify_count
    /\ UNCHANGED <<reply, next_reply, regVars, httpVars, qrVars, listing>>

\* the reply ids the other session or its channel hold
SiblingHeld ==
    SlotReplies(sibling.pending_voice_join) \cup SlotReplies(sibling.queued_join)
      \cup SlotReplies(sibling.cmd_rx)

\* two sessions, each with one Hello, a join before or after READY, voice
\* events, the protocol errors op 7 and op 9, and the loss of its socket
NextPair ==
    \/ SwitchSession
    \/ ConnectOk
    \/ ~identified /\ Hello(NoSeq)
    \/ Ready(NoSeq, "READY", TRUE, "s1", "u1")
    \/ \E c \in OptChannel : VoiceStateUpdate(NoSeq, TRUE, "g1", c, "u1")
    \/ VoiceServerUpdate(NoSeq, TRUE, "T", "ep", "g1")
    \/ Reconnect(NoSeq)
    \/ InvalidSession(NoSeq)
    \/ WsClosed
    \/ JoinVoice(FALSE)
    \/ SendJoin("g1", "c1")

SpecPair == Init /\ [][NextPair]_vars

C31_QrHeartbeatStopsWithFlow ==
    /\ [](qr_pc = "ended" => qr_hb = 0)
    /\ [][qr_pc # "ended" /\ qr_pc' = "ended" => qr_hb' = 0]_vars
    /\ [][qr_pc = "ended" =>
            /\ qr_pc' = "ended"
            /\ ~(\E ok \in BOOLEAN : QrHeartbeatTick(ok))
            /\ \A i \in DOMAIN qr_out' : qr_out' # qr_out => qr_out'[i].frame # QrHeartbeat]_vars

\* the flow has ended by a socket error, no cancel having been requested
C31_Witness ==
    /\ qr_pc = "ended"
    /\ qr_status = QrError("WebSocket error")
    /\ qr_hb = 0
    /\ qr_cancel_tx

\* ---------------------------------------------------------------- C32
\* C32: a pending_login frame with an empty ticket sets Error and ends the flow
\* without an exchange; one with a ticket sets Completing and starts the
\* exchange.  The step at which the exchange returns ends the flow and sets
\* Completed if it succeeded and Error if it failed, so an ended flow never
\* shows Completing.  (A session that was removed from the map has no status
\* to set.)
C32_PendingLoginEndsTerminal ==
    /\ [][\A t \in Tickets :
            QrPendingLogin(t) =>
              IF t = Empty
              THEN /\ qr_pc' = "ended"
                   /\ qr_logins' = qr_logins
                   /\ qr_status # Absent => qr_status' = QrError("Empty ticket")
              ELSE /\ qr_pc' = "exchange"
                   /\ qr_logins' = qr_logins + 1
                   /\ qr_status # Absent => qr_status'.tag = "Completing"]_vars
    /\ [][qr_pc = "exchange" /\ qr_pc' # "exchange" =>
            /\ qr_pc' = "ended"
            /\ \A ok \in BOOLEAN :
                 QrExchangeDone(ok) /\ qr_status # Absent =>
                    qr_status'.tag = IF ok THEN "Completed" ELSE "Error"]_vars
    /\ [](qr_pc = "ended" => qr_status.tag # "Completing")
    /\ [](qr_pc = "exchange" => qr_status.tag # "Completed")

\* the flow has ended after one exchange with the login result as its status
C32_Witness ==
    /\ qr_pc = "ended"
    /\ qr_logins = 1
    /\ qr_status = QrStatus("Completed", "auth")
    /\ qr_cancel_tx

\* ---------------------------------------------------------------- C33
\* C33 as stated: every finish frame, with or without an encrypted token, sets
\* Completing and starts the decryption and login whose return ends the flow
\* with Completed or Error; no finish frame leaves the flow reading frames.
C33_FinishEndsTerminal ==
    [][\A has_token \in BOOLEAN :
         QrFinish(has_token) =>
           /\ qr_pc' = "exchange"
           /\ qr_logins' = qr_logins + 1
           /\ qr_status # Absent => qr_status'.tag = "Completing"]_vars

\* ---------------------------------------------------------------- heartbeat tasks
\* (variant: the task goes on ticking after the actor has returned)
HeartbeatTaskStops_Never ==
    /\ phase = "ended"
    /\ hb_tasks > 0
    /\ UNCHANGED vars

\* a heartbeat task's interval elapses after run_gateway has returned: hb_rx is
\* gone, hb_tx_clone.send(()) fails and the task breaks out of its loop
HeartbeatTaskStops ==
    /\ phase = "ended"
    /\ hb_tasks > 0
    /\ hb_tasks' = hb_tasks - 1
    /\ UNCHANGED <<phase, sequence, readyVars, identified, pending_voice_join, queued_join,
                   voiceVars, presence, cmd_rx, ws_up, reply, next_reply, out,
                   arrived, ghostVars, restVars>>

\* one actor, its Hello frames and heartbeat tasks, joins held at its end, and
\* every way it ends
NextHb ==
    \/ ConnectOk
    \/ ConnectFail
    \/ DrainEnd
    \/ \E s \in OptSeq : Hello(s)
    \/ \E s \in OptSeq : HeartbeatAck(s)
    \/ HeartbeatTick
    \/ SocketBreak
    \/ WsClosed
    \/ \E s \in OptSeq : Reconnect(s)
    \/ \E s \in OptSeq : InvalidSession(s)
    \/ CmdClosed
    \/ \E t \in JoinTargets : SendJoin(t[1], t[2])
    \/ \E brk \in BOOLEAN : JoinVoice(brk)
    \/ HeartbeatTaskStops

\* the runtime keeps polling a spawned task, and its interval keeps elapsing
SpecHb == Init /\ [][NextHb]_vars /\ WF_vars(HeartbeatTaskStops)

\* ---------------------------------------------------------------- C34
\* C34: once the actor has ended, by whichever path, no heartbeat task is
\* spawned any more and every heartbeat task it spawned eventually stops.
C34_HeartbeatTasksStopAfterExit ==
    /\ [][phase = "ended" => hb_tasks' <= hb_tasks]_vars
    /\ [](phase = "ended" => <>(hb_tasks = 0))

\* the actor, which had received Hello, has ended and none of its tasks is left
C34_Witness ==
    /\ phase = "ended"
    /\ identify_count = 1
    /\ hb_tasks = 0

\* ---------------------------------------------------------------- C35
\* the actor processes a VOICE_STATE_UPDATE
StateUpdateStep ==
    \E s \in OptSeq, d \in BOOLEAN, g \in EventGuild, c \in OptChannel, u \in EventUser :
       VoiceStateUpdate(s, d, g, c, u)

\* C35: no state holds a pending join together with a captured voice token;
\* a VOICE_STATE_UPDATE delivers nothing on any reply channel, and a reply
\* channel receives a VoiceServerInfo only in a VOICE_SERVER_UPDATE step.
C35_PendingExcludesToken ==
    /\ [](~(pending_voice_join # <<>> /\ voice_token # Null))
    /\ [][reply' # reply \/ pending_voice_join' # pending_voice_join => ~StateUpdateStep]_vars
    /\ [][\A r \in ReplyIds :
            ~IsSuccess(reply[r]) /\ IsSuccess(reply'[r]) /\ reply'[r][1].info # NoInfo =>
               ServerUpdateStep /\ ~StateUpdateStep]_vars

\* a second join is pending after a first one was resolved and a later
\* VOICE_SERVER_UPDATE had left its token captured
C35_Witness ==
    /\ IsSuccess(reply[1])
    /\ pending_voice_join # <<>>
    /\ pending_voice_join[1].reply = 2
    /\ voice_token = Null
    /\ last_vsu["g1"]["u1"] = "c1"

\* ---------------------------------------------------------------- C36
\* C36 as stated: the VoiceServerInfo a pending join is answered with carries
\* the guild of that join.
C36_ResolvedWithOwnGuild ==
    [][pending_voice_join # <<>> /\ IsSuccess(reply'[pending_voice_join[1].reply]) =>
         reply'[pending_voice_join[1].reply][1].info.guild_id =
            pending_voice_join[1].guild_id]_vars

\* ---------------------------------------------------------------- C37
\* C37 as stated: at most one heartbeat task of the session is running in any
\* state.
C37_AtMostOneHeartbeatTask == hb_tasks <= 1

\* ---------------------------------------------------------------- C38
\* C38 as stated: a status that is Completed stays Completed, with the same
\* login result, at every later step, so every later poll returns it.
C38_CompletedIsStable ==
    [][qr_status.tag = "Completed" => qr_status' = qr_status]_vars

\* ---------------------------------------------------------------- C39
\* C39 as stated: once a cancel request has been accepted for the session (its
\* cancel Sender has been taken), no step of the flow starts a ticket exchange
\* or a token login.
C39_NoLoginAfterCancel ==
    [][qr_pc # "idle" /\ ~qr_cancel_tx =>
         qr_logins' = qr_logins /\ (qr_pc # "exchange" => qr_pc' # "exchange")]_vars

\* ---------------------------------------------------------------- C40
\* C40 as stated: a join is pending (its join frame sent) only while a session
\* id is held, and every VoiceServerInfo delivered carries a non-empty session
\* id and a non-empty user id.
C40_InfoCarriesSession ==
    /\ pending_voice_join # <<>> => session_id # Null
    /\ \A r \in ReplyIds :
         IsSuccess(reply[r]) /\ reply[r][1].info # NoInfo =>
            /\ reply[r][1].info.session_id # Empty
            /\ reply[r][1].info.user_id # Empty

====
